---- MODULE Spec2Model ----
(***************************************************************************)
(* Model of Src/Utils.py (findIndexOfClosest, linearToLog,                 *)
(* getOctaveBandsFromIR) and Src/Colouration.py (getColouration).          *)
(*                                                                         *)
(* Number representation.  The program computes in IEEE doubles; the model *)
(* computes in fixed point:                                                *)
(*   - a frequency is an integer count of milli-Hz;                        *)
(*   - a logarithm is an integer count of 1/24 octave above 15.625 Hz      *)
(*     (= 1000 * 2^-6 Hz, the lowest nominal band centre), whatever base   *)
(*     the program uses (np.log10, base=2): the base only fixes the unit;  *)
(*   - power() rounds down to the milli-Hz, log() rounds down to the       *)
(*     1/24 octave, as the double operations round to the nearest double.  *)
(* A float that may be NaN or infinite is a record [k, v] with k one of    *)
(* "fin", "nan", "pinf", "ninf".                                           *)
(***************************************************************************)
EXTENDS Integers, Sequences, FiniteSets, TLC

(***************************************************************************)
(* Bounds of the model.                                                    *)
(***************************************************************************)
\* len(rir) in the runs of getColouration and getOctaveBandsFromIR
RirLen == 3
\* largest len(magnitudes) handed to linearToLog on its own
MaxBins == 4

(***************************************************************************)
(* Floats.                                                                 *)
(***************************************************************************)
Fin(x) == [k |-> "fin", v |-> x]
NaN == [k |-> "nan", v |-> 0]
PosInf == [k |-> "pinf", v |-> 0]
NegInf == [k |-> "ninf", v |-> 0]
IsFin(x) == x.k = "fin"

RECURSIVE Pow2(_)
Pow2(n) == IF n <= 0 THEN 1 ELSE 2 * Pow2(n - 1)

\* floor(32000000 * 2^(r/24)), r = 0..23: the fractional powers of two.
Exp2Table ==
  << 32000000, 32937671, 33902819, 34896247, 35918785, 36971286,
     38054627, 39169713, 40317473, 41498865, 42714875, 43966516,
     45254833, 46580901, 47945826, 49350746, 50796833, 52285294,
     53817370, 55394339, 57017517, 58688258, 60407956, 62178044 >>

\* power(base, e): floor(15625 * 2^(e/24)) milli-Hz.
Power(e) ==
  Exp2Table[(e % 24) + 1] \div Pow2(11 - (e \div 24))

\* log(f) of a frequency f > 0 in milli-Hz: the largest e with Power(e) <= f,
\* searched between 2^-19 and 2^12 times 15.625 Hz.
RECURSIVE LogSearch(_, _, _)
LogSearch(f, lo, hi) ==
  IF lo >= hi THEN lo
  ELSE LET mid == (lo + hi + 1) \div 2
       IN  IF Power(mid) <= f THEN LogSearch(f, mid, hi)
           ELSE LogSearch(f, lo, mid - 1)

Log(f) == LogSearch(f, -456, 287)

\* np.log10 / np.log2 of a float: log(0) = -inf, log(x < 0) = nan.
LogF(x) ==
  IF x.k = "nan" THEN NaN
  ELSE IF x.k = "pinf" THEN PosInf
  ELSE IF x.k = "ninf" THEN NaN
  ELSE IF x.v < 0 THEN NaN
  ELSE IF x.v = 0 THEN NegInf
  ELSE Fin(Log(x.v))

\* base ** y of a float logarithm.
PowerF(y) ==
  IF y.k = "nan" THEN NaN
  ELSE IF y.k = "pinf" THEN PosInf
  ELSE IF y.k = "ninf" THEN Fin(0)
  ELSE Fin(Power(y.v))

\* np.linspace(start, stop, num)[i], i = 0..num-1, endpoint=True: start +
\* i * step with step = (stop - start) / (num - 1), the last element set to
\* stop.  With an infinite or NaN start or stop every element but the last is
\* i * inf + start = nan.
LinspaceAt(start, stop, num, i) ==
  IF num > 1 /\ i = num - 1 THEN stop
  ELSE IF IsFin(start) /\ IsFin(stop)
       THEN IF num = 1 THEN start
            ELSE Fin(start.v + ((i * (stop.v - start.v)) \div (num - 1)))
       ELSE NaN

\* np.logspace(start, stop, num) = base ** np.linspace(start, stop, num)
logspaceMissingEndpoint(start, stop, num) ==
  [i \in 1..num |-> PowerF(LinspaceAt(start, stop, num + 1, i - 1))]

logspace(start, stop, num) ==
  [i \in 1..num |-> PowerF(LinspaceAt(start, stop, num, i - 1))]

(***************************************************************************)
(* State.  One call of one of the three entry points is in flight; pc is   *)
(* its position.  Names are those of the source.                           *)
(***************************************************************************)
VARIABLES
  pc,                          \* position in the running function
  outcome,                     \* "running", "returned" or the exception raised
  rir, sample_rate,            \* arguments
  \* getOctaveBandsFromIR
  octave_band_resolution, octave_band_centres, centre_to_crossover_factor,
  freq_idx, band_signals, butter_calls,
  \* linearToLog
  magnitudes, f_min, f_max, log_mags, log_freqs_trunc,
  \* getColouration
  rt, rt_is_numpy, edc_dB, minus_15_position_samples,
  minus_35_position_samples, rir_sample_indices_windowed,
  rir_windowed_compensated, mag_spectrum, schroeder_frequency,
  mag_spectrum_log_trunc, mag_spectrum_freqs, num_octaves, window_size,
  mag_spectrum_to_smooth, mag_spectrum_smoothed, colouration_score

bandVars == << octave_band_resolution, octave_band_centres,
               centre_to_crossover_factor, freq_idx, band_signals,
               butter_calls >>
remapVars == << magnitudes, f_min, f_max, log_mags, log_freqs_trunc >>
scoreVars == << rt, rt_is_numpy, edc_dB, minus_15_position_samples,
                minus_35_position_samples, rir_sample_indices_windowed,
                rir_windowed_compensated, mag_spectrum, schroeder_frequency,
                mag_spectrum_log_trunc, mag_spectrum_freqs, num_octaves,
                window_size, mag_spectrum_to_smooth, mag_spectrum_smoothed,
                colouration_score >>
vars == << pc, outcome, rir, sample_rate, bandVars, remapVars, scoreVars >>

\* The variables of the functions that are not running.
BandsIdle ==
  /\ octave_band_resolution = 0 /\ octave_band_centres = << >>
  /\ centre_to_crossover_factor = 0 /\ freq_idx = 0
  /\ band_signals = << >> /\ butter_calls = << >>
RemapIdle ==
  /\ magnitudes = << >> /\ f_min = NaN /\ f_max = NaN
  /\ log_mags = << >> /\ log_freqs_trunc = << >>
ScoreIdle ==
  /\ rt = 0 /\ rt_is_numpy = FALSE /\ edc_dB = << >>
  /\ minus_15_position_samples = 0 /\ minus_35_position_samples = 0
  /\ rir_sample_indices_windowed = << >> /\ rir_windowed_compensated = << >>
  /\ mag_spectrum = << >> /\ schroeder_frequency = NaN
  /\ mag_spectrum_log_trunc = << >> /\ mag_spectrum_freqs = << >>
  /\ num_octaves = NaN /\ window_size = 0
  /\ mag_spectrum_to_smooth = << >> /\ mag_spectrum_smoothed = << >>
  /\ colouration_score = NaN

\* Two impulse responses of RirLen samples: a unit impulse and a decay.
Rirs == { [i \in 1..RirLen |-> IF i = 1 THEN 1 ELSE 0],
          [i \in 1..RirLen |-> RirLen + 1 - i] }

(***************************************************************************)
(* Utils.getOctaveBandsFromIR                                              *)
(***************************************************************************)
\* Sample rates in Hz tried on the filter bank.
BandSampleRates ==
  { 100, 150, 170, 200, 300, 400, 1000, 4000, 8000, 16000, 22050, 44100,
    48000, 96000 }

\* The logarithm of 1000 * 2^o Hz (o octaves from 1 kHz).
OctaveLog(o) == (o + 6) * 24

\* 1e3 * np.logspace(-6, 5, num, base=2), in milli-Hz.
NominalCentres(num) ==
  LET c == logspace(Fin(OctaveLog(-6)), Fin(OctaveLog(5)), num)
  IN  [i \in 1..num |-> c[i].v]

\* 2 ** (1 / 2) and 2 ** (1 / 6) as logarithms: 12 and 4 steps of 1/24 octave.
CrossoverFactor(resolution) ==
  IF resolution = 1 THEN 24 \div 2 ELSE 24 \div 6

AboveFloor(c) == c > 70000
BelowNyquistInclusive(c, fs) == 2 * c <= fs * 1000
BelowNyquist(c, fs) == 2 * c < fs * 1000

\* octave_band_centres[octave_band_centres > 70], then [... < 0.5 * sample_rate]
RetainedCentres(resolution, fs) ==
  LET nominal == NominalCentres(IF resolution = 1 THEN 12 ELSE 34)
      audible == SelectSeq(nominal, AboveFloor)
  IN  SelectSeq(audible, LAMBDA c : BelowNyquist(c, fs))

\* center_freq / factor and center_freq * factor
BinLower(center_freq, factor) == Power(Log(center_freq) - factor)
BinUpper(center_freq, factor) == Power(Log(center_freq) + factor)

filter_order == 5

\* scipy.signal.butter(N, Wn, btype, fs=fs, output='sos'): the design, or a
\* ValueError unless every critical frequency has 0 < Wn < fs / 2.
Butter(N, Wn, btype, fs) ==
  [ ok |-> \A i \in 1..Len(Wn) : Wn[i] > 0 /\ 2 * Wn[i] < fs * 1000,
    sos |-> [N |-> N, Wn |-> Wn, btype |-> btype, fs |-> fs] ]

\* scipy.signal.sosfilt(sos, x): x filtered by the design sos.
Sosfilt(sos, x) == [sos |-> sos, x |-> x]

\* A column of np.zeros([len(rir), num_bands]).
ZeroColumn == [sos |-> [N |-> 0, Wn |-> << >>, btype |-> "none", fs |-> 0],
               x |-> << >>]

\* 'low' if freq_idx == 0 else ('high' if freq_idx == num_bands - 1 else 'band')
BandType(idx, n) ==
  IF idx = 0 THEN "low" ELSE IF idx = n - 1 THEN "high" ELSE "band"

BandDesignSameOrder(band_type, center_freq, factor, fs) ==
  LET bin_lower == BinLower(center_freq, factor)
      bin_upper == BinUpper(center_freq, factor)
  IN  IF band_type = "low"
        THEN Butter(filter_order, << bin_upper >>, "lowpass", fs)
      ELSE IF band_type = "band"
        THEN Butter(filter_order, << bin_lower, bin_upper >>, "bandpass", fs)
      ELSE Butter(filter_order, << bin_lower >>, "highpass", fs)

\* The butter() call of one loop iteration.
BandDesign(band_type, center_freq, factor, fs) ==
  LET bin_lower == BinLower(center_freq, factor)
      bin_upper == BinUpper(center_freq, factor)
  IN  IF band_type = "low"
        THEN Butter(2 * filter_order, << bin_upper >>, "lowpass", fs)
      ELSE IF band_type = "band"
        THEN Butter(filter_order, << bin_lower, bin_upper >>, "bandpass", fs)
      ELSE Butter(2 * filter_order, << bin_lower >>, "highpass", fs)

BandsInit ==
  /\ pc = "bands_start" /\ outcome = "running"
  /\ rir \in Rirs
  /\ sample_rate \in BandSampleRates
  /\ octave_band_resolution \in {1, 3}
  /\ octave_band_centres = << >> /\ centre_to_crossover_factor = 0
  /\ freq_idx = 0 /\ band_signals = << >> /\ butter_calls = << >>
  /\ RemapIdle /\ ScoreIdle

\* Lines 98-110: the centres, the crossover factor and the zeroed output.
BandsSetup ==
  /\ pc = "bands_start"
  /\ octave_band_centres' = RetainedCentres(octave_band_resolution, sample_rate)
  /\ centre_to_crossover_factor' = CrossoverFactor(octave_band_resolution)
  /\ band_signals' = [i \in 1..Len(octave_band_centres') |-> ZeroColumn]
  /\ freq_idx' = 0
  /\ pc' = "bands_loop"
  /\ UNCHANGED << outcome, rir, sample_rate, octave_band_resolution,
                  butter_calls, remapVars, scoreVars >>

\* Lines 111-128: one iteration of the loop over the centres.
BandsIterate ==
  /\ pc = "bands_loop"
  /\ freq_idx < Len(octave_band_centres)
  /\ LET num_bands == Len(octave_band_centres)
         center_freq == octave_band_centres[freq_idx + 1]
         design == BandDesign(BandType(freq_idx, num_bands), center_freq,
                              centre_to_crossover_factor, sample_rate)
     IN  /\ butter_calls' = Append(butter_calls, design.sos)
         /\ IF design.ok
              THEN /\ band_signals' =
                        [band_signals EXCEPT ![freq_idx + 1] =
                                               Sosfilt(design.sos, rir)]
                   /\ freq_idx' = freq_idx + 1
                   /\ UNCHANGED << pc, outcome >>
              ELSE /\ pc' = "bands_raised"
                   /\ outcome' = "ValueError"
                   /\ UNCHANGED << band_signals, freq_idx >>
  /\ UNCHANGED << rir, sample_rate, octave_band_resolution,
                  octave_band_centres, centre_to_crossover_factor,
                  remapVars, scoreVars >>

\* Line 131: return band_signals, octave_band_centres
BandsReturn ==
  /\ pc = "bands_loop"
  /\ freq_idx = Len(octave_band_centres)
  /\ pc' = "bands_done"
  /\ outcome' = "returned"
  /\ UNCHANGED << rir, sample_rate, bandVars, remapVars, scoreVars >>

BandsNext == BandsSetup \/ BandsIterate \/ BandsReturn

SpecBands == BandsInit /\ [][BandsNext]_vars

(***************************************************************************)
(* Utils.linearToLog                                                       *)
(***************************************************************************)
None == [k |-> "none", v |-> 0]

\* The magnitude at target frequency x (milli-Hz) of the spectrum mags, whose
\* bins j = 1..num_bins-1 (the DC bin 0 removed) lie at j * nyquist /
\* (num_bins - 1): linear interpolation between the two neighbouring bins.
InterpolateInside(mags, nyquist, x) ==
  LET num_bins == Len(mags)
      pos == x * (num_bins - 1)
      lo == CHOOSE j \in 1..(num_bins - 1) :
              /\ j * nyquist <= pos
              /\ (j = num_bins - 1 \/ (j + 1) * nyquist > pos)
      y_lo == mags[lo + 1]
  IN  IF lo = num_bins - 1 \/ pos = lo * nyquist THEN y_lo
      ELSE LET y_hi == mags[lo + 2]
           IN  IF ~IsFin(y_lo) \/ ~IsFin(y_hi) THEN NaN
               ELSE Fin((y_lo.v * nyquist
                         + (y_hi.v - y_lo.v) * (pos - lo * nyquist))
                        \div nyquist)

\* fill_value taken from the nearest edge bin instead of 0.0
Interp1dEdgeFill(mags, nyquist, x) ==
  LET num_bins == Len(mags)
  IN  IF x.k = "nan" THEN NaN
      ELSE IF x.k = "pinf" THEN mags[num_bins]
      ELSE IF x.v * (num_bins - 1) < nyquist THEN mags[2]
      ELSE IF x.v > nyquist THEN mags[num_bins]
      ELSE InterpolateInside(mags, nyquist, x.v)

\* interp1d(lin_freqs_full[1:], magnitudes[1:], kind='linear',
\*          bounds_error=False, fill_value=0.0)(x)
Interp1d(mags, nyquist, x) ==
  LET num_bins == Len(mags)
  IN  IF x.k = "nan" THEN NaN
      ELSE IF x.k = "pinf" THEN Fin(0)
      ELSE IF x.v * (num_bins - 1) < nyquist THEN Fin(0)
      ELSE IF x.v > nyquist THEN Fin(0)
      ELSE InterpolateInside(mags, nyquist, x.v)

\* linearToLog(magnitudes, sample_rate, f_min, f_max), frequencies in
\* milli-Hz, sample_rate in Hz.
linearToLog(mags, fs, fmin, fmax) ==
  LET num_bins == Len(mags)
      nyquist == fs * 500
      top == IF fmax = None THEN Fin(nyquist) ELSE fmax
      freqs == logspace(LogF(fmin), LogF(top), num_bins)
  IN  [ log_mags |-> [i \in 1..num_bins |-> Interp1d(mags, nyquist, freqs[i])],
        log_freqs_trunc |-> freqs ]

\* Inputs tried on linearToLog alone.
MagValues == {1, 3}
RemapSampleRates == {1000, 8000, 48000}
RemapMinFrequencies == {20000, 100000, 250000, 3950000}
RemapMaxFrequencies == {500000, 4000000, 4100000, 30000000}

RemapInit ==
  /\ pc = "remap_start" /\ outcome = "running"
  /\ rir = << >>
  /\ sample_rate \in RemapSampleRates
  /\ \E n \in 2..MaxBins : magnitudes \in [1..n -> {Fin(m) : m \in MagValues}]
  /\ f_min \in {Fin(f) : f \in RemapMinFrequencies}
  /\ f_max \in {Fin(f) : f \in RemapMaxFrequencies} \cup {None}
  /\ f_min.v < (IF f_max = None THEN sample_rate * 500 ELSE f_max.v)
  /\ log_mags = << >> /\ log_freqs_trunc = << >>
  /\ BandsIdle /\ ScoreIdle

\* The whole call: lines 50-69.
RemapCall ==
  /\ pc = "remap_start"
  /\ LET r == linearToLog(magnitudes, sample_rate, f_min, f_max)
     IN  /\ log_mags' = r.log_mags
         /\ log_freqs_trunc' = r.log_freqs_trunc
  /\ pc' = "remap_done"
  /\ outcome' = "returned"
  /\ UNCHANGED << rir, sample_rate, magnitudes, f_min, f_max, bandVars,
                  scoreVars >>

RemapNext == RemapCall

SpecRemap == RemapInit /\ [][RemapNext]_vars

(***************************************************************************)
(* Claims about linearToLog (checked under SpecRemap).                     *)
(***************************************************************************)
RemapTop == IF f_max = None THEN sample_rate * 500 ELSE f_max.v

StrictlyIncreasing(freqs) ==
  \A i \in 1..(Len(freqs) - 1) : freqs[i].v < freqs[i + 1].v

WithinRounding(y, x) == y <= x /\ (x - y) * 100 <= 3 * x

IsConstant(mags) == \A i \in 1..Len(mags) : mags[i] = mags[1]

\* C6: for a spectrum whose bins all equal v, every output magnitude is v or
\* 0, and it is 0 exactly at the target frequencies below the first non-DC
\* bin, nyquist / (num_bins - 1), or above nyquist.
C6_FlatSpectrumStaysFlat ==
  (pc = "remap_done" /\ IsConstant(magnitudes)) =>
    LET n == Len(magnitudes)
        v == magnitudes[1]
        nyquist == sample_rate * 500
    IN  \A i \in 1..n :
          LET target == log_freqs_trunc[i].v
              outside == target * (n - 1) < nyquist \/ target > nyquist
          IN  /\ log_mags[i] \in {v, Fin(0)}
              /\ (log_mags[i] = Fin(0)) <=> outside

\* A flat spectrum remapped with targets below the first bin, inside the
\* axis and above nyquist.
C6_Witness ==
  /\ pc = "remap_done" /\ IsConstant(magnitudes)
  /\ log_mags[1] = Fin(0)
  /\ log_mags[Len(log_mags)] = Fin(0)
  /\ \E i \in 1..Len(log_mags) : log_mags[i] = magnitudes[1]

(***************************************************************************)
(* Python sequences.  A Python index i is position i + 1 of the TLA+       *)
(* sequence.                                                               *)
(***************************************************************************)
\* A slice bound i of a sequence of n elements, as slice.indices() resolves
\* it: negative bounds count from the end, then the bound is clamped to
\* lowest..highest.
SliceBound(i, n, lowest, highest) ==
  LET j == IF i < 0 THEN i + n ELSE i
  IN  IF j < lowest THEN lowest ELSE IF j > highest THEN highest ELSE j

\* x[start:stop]
SliceUp(x, start, stop) ==
  LET n == Len(x)
      a == SliceBound(start, n, 0, n)
      b == SliceBound(stop, n, 0, n)
  IN  IF b <= a THEN << >> ELSE [k \in 1..(b - a) |-> x[a + k]]

\* x[start:stop:-1] with a resolved start a and stop b: x[a], x[a-1], ...,
\* x[b+1].
Downwards(x, a, b) ==
  IF a <= b THEN << >> ELSE [k \in 1..(a - b) |-> x[a - k + 2]]

\* x[start:stop:-1]
SliceDown(x, start, stop) ==
  LET n == Len(x)
  IN  Downwards(x, SliceBound(start, n, -1, n - 1),
                   SliceBound(stop, n, -1, n - 1))

\* x[:stop:-1]
SliceDownFromEnd(x, stop) ==
  LET n == Len(x)
  IN  Downwards(x, n - 1, SliceBound(stop, n, -1, n - 1))

RECURSIVE SumSeq(_)
SumSeq(x) == IF x = << >> THEN 0 ELSE Head(x) + SumSeq(Tail(x))

AllFin(x) == \A i \in 1..Len(x) : IsFin(x[i])

Abs(x) == IF x < 0 THEN -x ELSE x

\* floor(sqrt(n)) for n >= 0
RECURSIVE SqrtSearch(_, _, _)
SqrtSearch(n, lo, hi) ==
  IF lo >= hi THEN lo
  ELSE LET mid == (lo + hi + 1) \div 2
       IN  IF mid * mid <= n THEN SqrtSearch(n, mid, hi)
           ELSE SqrtSearch(n, lo, mid - 1)

Isqrt(n) == SqrtSearch(n, 0, 46340)

(***************************************************************************)
(* Utils.findIndexOfClosest                                                *)
(***************************************************************************)
\* the last index among those at the least distance
findIndexOfClosestLast(list, target) ==
  CHOOSE i \in 0..(Len(list) - 1) :
    /\ \A j \in 0..(Len(list) - 1) :
         Abs(list[i + 1] - target) <= Abs(list[j + 1] - target)
    /\ \A j \in (i + 1)..(Len(list) - 1) :
         Abs(list[j + 1] - target) > Abs(list[i + 1] - target)

\* (np.abs(list - target)).argmin(): the first index at the least distance.
findIndexOfClosest(list, target) ==
  CHOOSE i \in 0..(Len(list) - 1) :
    /\ \A j \in 0..(Len(list) - 1) :
         Abs(list[i + 1] - target) <= Abs(list[j + 1] - target)
    /\ \A j \in 0..(i - 1) :
         Abs(list[j + 1] - target) > Abs(list[i + 1] - target)

(***************************************************************************)
(* Colouration.getColouration                                              *)
(***************************************************************************)
\* The transform size (2 ** 17 in the program), scaled down.
fft_size == 8

\* Returns of RT.estimateRT tried, in seconds.
RtValues == { -13000, 0, 1, 8000, 13000, 15000, 16000, 18000, 19000, 20000, 24000 }
\* Levels of the decay curve returned by Energy.getEDC, in dB.
DbValues == { -14, -16, -35, -60 }
ScoreSampleRates == { 8000, 16000 }

\* np.abs(np.fft.rfft(...)) of a finite, non-empty segment: the transform is
\* not computed by the model, any of these spectra of fft_size / 2 + 1 bins
\* may come out.
Spectra ==
  LET n == (fft_size \div 2) + 1
  IN  { [i \in 1..n |-> Fin(40)],
        [i \in 1..n |-> Fin(10 * i)],
        [i \in 1..n |-> Fin(IF i = n - 1 THEN 90 ELSE 10 + 5 * i)] }

\* rir[sample_index] * np.exp(6.91 * sample_index * sampling_period / rt), as
\* the sample v at time t scaled by a gain that is finite (k = "fin") unless
\* rt = 0: then the exponent is 0 / 0 = nan at t = 0 and inf after, and the
\* product is nan for a zero sample.
Compensated(sample, sample_index, rt_value) ==
  [ k |-> IF rt_value # 0 THEN "fin"
          ELSE IF sample_index = 0 \/ sample = 0 THEN "nan"
          ELSE IF sample > 0 THEN "pinf" ELSE "ninf",
    v |-> sample, t |-> sample_index ]

\* 2000.0 * np.sqrt(|rt| / room_volume)
SchroederFrequencyOfMagnitude(rt_value) ==
  Fin(200 * Isqrt(20000 * Abs(rt_value)))

\* 2000.0 * np.sqrt(rt / room_volume) with room_volume = 5000, in milli-Hz:
\* sqrt(8e8 * rt) = 200 * sqrt(20000 * rt), the root rounded down.  The root
\* of a negative number is nan.
SchroederFrequency(rt_value) ==
  IF rt_value < 0 THEN NaN ELSE Fin(200 * Isqrt(20000 * rt_value))

upper_frequency_limit == 4000000

\* np.log10(hi / lo) / np.log10(2), in steps of 1/24 octave.  On the values
\* power() returns, log(hi / lo) = log(hi) - log(lo) exactly.
NumOctaves(hi, lo) ==
  IF hi.k = "nan" \/ lo.k = "nan" THEN NaN
  ELSE IF ~IsFin(hi) \/ ~IsFin(lo) THEN NaN
  ELSE IF lo.v = 0 THEN (IF hi.v = 0 THEN NaN ELSE PosInf)
  ELSE IF hi.v = 0 THEN NegInf
  ELSE Fin(Log(hi.v) - Log(lo.v))

\* (num_bins / octaves) * 0.15 rounded to the nearest integer, halves up
WindowSizeRounded(num_bins, octaves) ==
  IF octaves.k = "nan" THEN [ok |-> FALSE, error |-> "ValueError", value |-> 0]
  ELSE IF ~IsFin(octaves) THEN [ok |-> TRUE, error |-> "", value |-> 0]
  ELSE IF octaves.v = 0
    THEN [ok |-> FALSE, error |-> "OverflowError", value |-> 0]
  ELSE LET num == 3 * num_bins * 24
           den == 20 * Abs(octaves.v)
           q == (2 * num + den) \div (2 * den)
       IN  [ok |-> TRUE, error |-> "",
            value |-> IF octaves.v > 0 THEN q ELSE -q]

\* int((num_bins / octaves) * 0.15): the quotient truncated toward zero.
\* int(nan) raises ValueError, int(inf) (octaves = 0) OverflowError; with
\* octaves in steps of 1/24 octave the quotient is
\* 0.15 * num_bins * 24 / steps = 3 * num_bins * 24 / (20 * steps).
WindowSize(num_bins, octaves) ==
  IF octaves.k = "nan" THEN [ok |-> FALSE, error |-> "ValueError", value |-> 0]
  ELSE IF ~IsFin(octaves) THEN [ok |-> TRUE, error |-> "", value |-> 0]
  ELSE IF octaves.v = 0
    THEN [ok |-> FALSE, error |-> "OverflowError", value |-> 0]
  ELSE LET q == (3 * num_bins * 24) \div (20 * Abs(octaves.v))
       IN  [ok |-> TRUE, error |-> "",
            value |-> IF octaves.v > 0 THEN q ELSE -q]

\* np.concat([x[window_size:0:-1], x, x[:-window_size-1:-1]])
MirrorPad(x, w) ==
  SliceDown(x, w, 0) \o x \o SliceDownFromEnd(x, -w - 1)

\* The least-squares line through the w samples ys, evaluated at position p
\* (0-based, in the window): mean + slope * (p - (w - 1) / 2).
LineFitAt(ys, p) ==
  LET w == Len(ys)
      sy == SumSeq([t \in 1..w |-> ys[t].v])
      sxy == SumSeq([t \in 1..w |-> (2 * (t - 1) - (w - 1)) * ys[t].v])
      sxx == SumSeq([t \in 1..w |->
                       (2 * (t - 1) - (w - 1)) * (2 * (t - 1) - (w - 1))])
  IN  IF ~AllFin(ys) THEN NaN
      ELSE Fin((sy * sxx + sxy * (2 * p - (w - 1)) * w) \div (w * sxx))

\* The mean of the samples ys.
MeanOf(ys) ==
  IF ~AllFin(ys) THEN NaN
  ELSE Fin(SumSeq([t \in 1..Len(ys) |-> ys[t].v]) \div Len(ys))

\* scipy.signal.savgol_filter(x, window_length, 1) (mode='interp'): a
\* ValueError when window_length exceeds len(x) or does not exceed the
\* polynomial order 1; else, at each position, the degree-1 least-squares fit
\* over the window_length samples around it, evaluated there (the mean of the
\* window), the first and last window_length // 2 positions taken from the
\* fit to the first and last window_length samples.
Savgol(x, window_length) ==
  LET n == Len(x)
      halflen == window_length \div 2
      first == IF window_length % 2 = 0 THEN 1 - halflen ELSE -halflen
  IN  IF window_length > n \/ window_length <= 1
        THEN [ok |-> FALSE, y |-> << >>]
      ELSE [ ok |-> TRUE,
             y |-> [q \in 1..n |->
                      LET p == q - 1
                      IN  IF p < halflen
                            THEN LineFitAt(SubSeq(x, 1, window_length), p)
                          ELSE IF p >= n - halflen
                            THEN LineFitAt(SubSeq(x, n - window_length + 1, n),
                                           p - (n - window_length))
                          ELSE MeanOf(SubSeq(x, q + first, q + halflen))] ]

\* x / y for two floats, scaled by 1000.
RatioF(x, y) ==
  IF ~IsFin(x) \/ ~IsFin(y) THEN NaN
  ELSE IF y.v = 0 THEN (IF x.v = 0 THEN NaN ELSE PosInf)
  ELSE Fin((1000 * x.v) \div y.v)

RECURSIVE MaxSeq(_)
MaxSeq(x) ==
  IF Len(x) = 1 THEN x[1]
  ELSE LET m == MaxSeq(Tail(x)) IN IF x[1] >= m THEN x[1] ELSE m

\* Lines 69-74.  mag_over_means = raw / smoothed; the score is
\* std + log10(max - mean - std): the model keeps std and the argument of the
\* logarithm, and whether the sum is a number (k = "fin"), -inf or nan.
Score(raw, smoothed) ==
  LET n == Len(raw)
      ratio == [i \in 1..n |->
                  RatioF(raw[i], smoothed[IF Len(smoothed) = 1 THEN 1 ELSE i])]
  IN  IF ~AllFin(ratio) THEN [k |-> "nan", std_dev |-> 0, peak_excess |-> 0]
      ELSE LET r == [i \in 1..n |-> ratio[i].v]
               mean == SumSeq(r) \div n
               var == SumSeq([i \in 1..n |->
                                (r[i] - mean) * (r[i] - mean)]) \div n
               std_dev == Isqrt(var)
               excess == MaxSeq(r) - mean - std_dev
           IN  [ k |-> IF excess > 0 THEN "fin"
                       ELSE IF excess = 0 THEN "ninf" ELSE "nan",
                 std_dev |-> std_dev, peak_excess |-> excess ]

ScoreInit ==
  /\ pc = "score_start" /\ outcome = "running"
  /\ rir \in Rirs
  /\ sample_rate \in ScoreSampleRates
  /\ ScoreIdle /\ BandsIdle /\ RemapIdle

\* Line 32: rt = RT.estimateRT(rir, sample_rate, -15, -35).  The estimator is
\* not part of the model: it returns any of RtValues, as a Python float or
\* as a numpy float.
ScoreEstimateRT ==
  /\ pc = "score_start"
  /\ rt' \in RtValues
  /\ rt_is_numpy' \in BOOLEAN
  /\ pc' = "score_window"
  /\ UNCHANGED << outcome, rir, sample_rate, edc_dB,
                  minus_15_position_samples, minus_35_position_samples,
                  rir_sample_indices_windowed, rir_windowed_compensated,
                  mag_spectrum, schroeder_frequency, mag_spectrum_log_trunc,
                  mag_spectrum_freqs, num_octaves, window_size,
                  mag_spectrum_to_smooth, mag_spectrum_smoothed,
                  colouration_score, bandVars, remapVars >>

\* Lines 35-40: the decay curve (any curve over DbValues, one level per
\* sample), the two closest indices and the window between them.
ScoreWindow ==
  /\ pc = "score_window"
  /\ edc_dB' \in [1..Len(rir) -> DbValues]
  /\ minus_15_position_samples' = findIndexOfClosest(edc_dB', -15)
  /\ minus_35_position_samples' = findIndexOfClosest(edc_dB', -35)
  /\ rir_sample_indices_windowed' =
       SliceUp([i \in 1..Len(rir) |-> i - 1],
               minus_15_position_samples', minus_35_position_samples')
  /\ pc' = "score_compensate"
  /\ UNCHANGED << outcome, rir, sample_rate, rt, rt_is_numpy,
                  rir_windowed_compensated, mag_spectrum, schroeder_frequency,
                  mag_spectrum_log_trunc, mag_spectrum_freqs, num_octaves,
                  window_size, mag_spectrum_to_smooth, mag_spectrum_smoothed,
                  colouration_score, bandVars, remapVars >>

\* Lines 43-45: the decay compensation.  Dividing by a Python float 0.0
\* raises ZeroDivisionError at the first sample of the window; dividing by a
\* numpy 0.0 gives inf or nan.
ScoreCompensate ==
  /\ pc = "score_compensate"
  /\ IF rt = 0 /\ ~rt_is_numpy /\ rir_sample_indices_windowed # << >>
       THEN /\ pc' = "score_raised"
            /\ outcome' = "ZeroDivisionError"
            /\ UNCHANGED rir_windowed_compensated
       ELSE /\ rir_windowed_compensated' =
                 [i \in 1..Len(rir_sample_indices_windowed) |->
                    Compensated(rir[rir_sample_indices_windowed[i] + 1],
                                rir_sample_indices_windowed[i], rt)]
            /\ pc' = "score_spectrum"
            /\ UNCHANGED outcome
  /\ UNCHANGED << rir, sample_rate, rt, rt_is_numpy, edc_dB,
                  minus_15_position_samples, minus_35_position_samples,
                  rir_sample_indices_windowed, mag_spectrum,
                  schroeder_frequency, mag_spectrum_log_trunc,
                  mag_spectrum_freqs, num_octaves, window_size,
                  mag_spectrum_to_smooth, mag_spectrum_smoothed,
                  colouration_score, bandVars, remapVars >>

\* Lines 48-49: the magnitude spectrum, fft_size / 2 + 1 bins: zero for an
\* empty segment, not a number for a segment holding inf or nan.
ScoreSpectrum ==
  /\ pc = "score_spectrum"
  /\ LET n == (fft_size \div 2) + 1
     IN  IF rir_windowed_compensated = << >>
           THEN mag_spectrum' = [i \in 1..n |-> Fin(0)]
         ELSE IF ~AllFin(rir_windowed_compensated)
           THEN mag_spectrum' = [i \in 1..n |-> NaN]
         ELSE mag_spectrum' \in Spectra
  /\ pc' = "score_remap"
  /\ UNCHANGED << outcome, rir, sample_rate, rt, rt_is_numpy, edc_dB,
                  minus_15_position_samples, minus_35_position_samples,
                  rir_sample_indices_windowed, rir_windowed_compensated,
                  schroeder_frequency, mag_spectrum_log_trunc,
                  mag_spectrum_freqs, num_octaves, window_size,
                  mag_spectrum_to_smooth, mag_spectrum_smoothed,
                  colouration_score, bandVars, remapVars >>

\* Lines 52-56: the Schroeder frequency and the remapping to log frequency.
ScoreRemap ==
  /\ pc = "score_remap"
  /\ schroeder_frequency' = SchroederFrequency(rt)
  /\ LET r == linearToLog(mag_spectrum, sample_rate, schroeder_frequency',
                          Fin(upper_frequency_limit))
     IN  /\ mag_spectrum_log_trunc' = r.log_mags
         /\ mag_spectrum_freqs' = r.log_freqs_trunc
  /\ pc' = "score_window_size"
  /\ UNCHANGED << outcome, rir, sample_rate, rt, rt_is_numpy, edc_dB,
                  minus_15_position_samples, minus_35_position_samples,
                  rir_sample_indices_windowed, rir_windowed_compensated,
                  mag_spectrum, num_octaves, window_size,
                  mag_spectrum_to_smooth, mag_spectrum_smoothed,
                  colouration_score, bandVars, remapVars >>

\* Lines 59-60: the octaves spanned and the smoothing window.
ScoreWindowSize ==
  /\ pc = "score_window_size"
  /\ num_octaves' = NumOctaves(mag_spectrum_freqs[Len(mag_spectrum_freqs)],
                               mag_spectrum_freqs[1])
  /\ LET w == WindowSize(Len(mag_spectrum_log_trunc), num_octaves')
     IN  IF w.ok
           THEN /\ window_size' = w.value
                /\ pc' = "score_smooth"
                /\ UNCHANGED outcome
           ELSE /\ pc' = "score_raised"
                /\ outcome' = w.error
                /\ UNCHANGED window_size
  /\ UNCHANGED << rir, sample_rate, rt, rt_is_numpy, edc_dB,
                  minus_15_position_samples, minus_35_position_samples,
                  rir_sample_indices_windowed, rir_windowed_compensated,
                  mag_spectrum, schroeder_frequency, mag_spectrum_log_trunc,
                  mag_spectrum_freqs, mag_spectrum_to_smooth,
                  mag_spectrum_smoothed, colouration_score, bandVars,
                  remapVars >>

\* Lines 61-66: the mirrored padding, the smoothing filter and the removal of
\* the padding.
ScoreSmooth ==
  /\ pc = "score_smooth"
  /\ mag_spectrum_to_smooth' = MirrorPad(mag_spectrum_log_trunc, window_size)
  /\ LET f == Savgol(mag_spectrum_to_smooth', window_size)
     IN  IF f.ok
           THEN /\ mag_spectrum_smoothed' =
                     SliceUp(f.y, window_size, -window_size)
                /\ pc' = "score_stats"
                /\ UNCHANGED outcome
           ELSE /\ pc' = "score_raised"
                /\ outcome' = "ValueError"
                /\ UNCHANGED mag_spectrum_smoothed
  /\ UNCHANGED << rir, sample_rate, rt, rt_is_numpy, edc_dB,
                  minus_15_position_samples, minus_35_position_samples,
                  rir_sample_indices_windowed, rir_windowed_compensated,
                  mag_spectrum, schroeder_frequency, mag_spectrum_log_trunc,
                  mag_spectrum_freqs, num_octaves, window_size,
                  colouration_score, bandVars, remapVars >>

\* Lines 69-84: the ratio (a ValueError when the two sequences cannot be
\* broadcast together), its statistics and the return.
ScoreStats ==
  /\ pc = "score_stats"
  /\ IF Len(mag_spectrum_smoothed) \in {1, Len(mag_spectrum_log_trunc)}
       THEN /\ colouration_score' =
                 Score(mag_spectrum_log_trunc, mag_spectrum_smoothed)
            /\ pc' = "score_done"
            /\ outcome' = "returned"
       ELSE /\ pc' = "score_raised"
            /\ outcome' = "ValueError"
            /\ UNCHANGED colouration_score
  /\ UNCHANGED << rir, sample_rate, rt, rt_is_numpy, edc_dB,
                  minus_15_position_samples, minus_35_position_samples,
                  rir_sample_indices_windowed, rir_windowed_compensated,
                  mag_spectrum, schroeder_frequency, mag_spectrum_log_trunc,
                  mag_spectrum_freqs, num_octaves, window_size,
                  mag_spectrum_to_smooth, mag_spectrum_smoothed, bandVars,
                  remapVars >>

ScoreNext ==
  \/ ScoreEstimateRT \/ ScoreWindow \/ ScoreCompensate \/ ScoreSpectrum
  \/ ScoreRemap \/ ScoreWindowSize \/ ScoreSmooth \/ ScoreStats

SpecScore == ScoreInit /\ [][ScoreNext]_vars

(***************************************************************************)
(* The three entry points together.                                        *)
(***************************************************************************)
Init == BandsInit \/ RemapInit \/ ScoreInit
Next == BandsNext \/ RemapNext \/ ScoreNext
Spec == Init /\ [][Next]_vars

(***************************************************************************)
(* Claims about getColouration (checked under SpecScore).                  *)
(***************************************************************************)
ScoreEnded == pc \in {"score_done", "score_raised"}
ScoreErrors == {"ValueError", "ZeroDivisionError", "OverflowError"}

\* C1: whenever the estimator returned rt <= 0, the call never returns a
\* score and never gets as far as the smoothing: once ended, its outcome is an
\* exception.
C1_NonPositiveRtRaises ==
  (pc \in {"score_window", "score_compensate", "score_spectrum", "score_remap",
           "score_window_size", "score_smooth", "score_stats", "score_done",
           "score_raised"} /\ rt <= 0) =>
    /\ pc # "score_done"
    /\ outcome # "returned"
    /\ ScoreEnded => outcome \in ScoreErrors
    /\ ~ScoreEnded => outcome = "running"
    /\ pc \notin {"score_smooth", "score_stats"}

\* A call with rt = 0 returned as a numpy float: nothing raises in the
\* compensation, the nan reaches the window size and int() raises.
C1_Witness ==
  /\ pc = "score_raised" /\ rt = 0 /\ rt_is_numpy
  /\ rir_sample_indices_windowed # << >>
  /\ num_octaves = NaN
  /\ outcome = "ValueError"

\* C2: with a smoothing window that is <= 0 or longer than half the
\* log-frequency spectrum the call fails before any smoothing: it never gets to
\* the smoothed spectrum nor to a score.
C2_BadWindowFailsBeforeSmoothing ==
  pc \in {"score_stats", "score_done"} =>
    /\ window_size > 0
    /\ 2 * window_size <= Len(mag_spectrum_log_trunc)

\* The padded sequence of claim C7, reverse(x[1..w]) ++ x ++
\* reverse(x[N-1-w..N-2]) (0-based): position q (1-based) of it.
ReflectedPad(x, w) ==
  LET n == Len(x)
  IN  [q \in 1..(n + 2 * w) |->
         IF q <= w THEN x[w - q + 2]
         ELSE IF q <= w + n THEN x[q - w]
         ELSE x[n - (q - w - n)]]

\* C7: for a window 1 <= w < N the padded sequence is reverse(x[1..w]) ++ x ++
\* reverse(x[N-1-w..N-2]), of length N + 2w, neither pad holding the boundary
\* sample, and the smoothed sequence has length N.
C7_PadsExcludeBoundary ==
  (pc \in {"score_stats", "score_done", "score_raised"}
     /\ mag_spectrum_to_smooth # << >>
     /\ 1 <= window_size /\ window_size < Len(mag_spectrum_log_trunc)) =>
    /\ Len(mag_spectrum_to_smooth)
         = Len(mag_spectrum_log_trunc) + 2 * window_size
    /\ mag_spectrum_to_smooth = ReflectedPad(mag_spectrum_log_trunc, window_size)
    /\ pc \in {"score_stats", "score_done"} =>
         Len(mag_spectrum_smoothed) = Len(mag_spectrum_log_trunc)

WindowComputed ==
  /\ pc \in {"score_smooth", "score_stats", "score_done", "score_raised"}
  /\ IsFin(num_octaves) /\ num_octaves.v > 0

\* C8 as stated: the window is the integer nearest to
\* 0.15 * binCount / octaveCount (octaveCount = num_octaves / 24 here).
C8_WindowIsRounded ==
  WindowComputed =>
    LET num == 3 * Len(mag_spectrum_log_trunc) * 24
        den == 20 * num_octaves.v
    IN  2 * Abs(window_size * den - num) <= den

\* C8 amended: the window is 0.15 * binCount / octaveCount truncated toward
\* zero: window <= quotient < window + 1.
C8_WindowIsTruncated ==
  WindowComputed =>
    LET num == 3 * Len(mag_spectrum_log_trunc) * 24
        den == 20 * num_octaves.v
    IN  /\ window_size * den <= num
        /\ num < (window_size + 1) * den

\* A window whose quotient, 3.6, is nearer the next integer.
C8_Witness ==
  /\ WindowComputed
  /\ Len(mag_spectrum_log_trunc) = 5
  /\ num_octaves.v = 5
  /\ window_size = 3

WindowSelected ==
  pc \in {"score_compensate", "score_spectrum", "score_remap",
          "score_window_size", "score_smooth", "score_stats", "score_done",
          "score_raised"}

\* i is the lowest of the indices of edc_dB nearest to target.
LowestClosest(i, target) ==
  /\ i \in 0..(Len(edc_dB) - 1)
  /\ \A j \in 0..(Len(edc_dB) - 1) :
       /\ Abs(edc_dB[i + 1] - target) <= Abs(edc_dB[j + 1] - target)
       /\ Abs(edc_dB[i + 1] - target) = Abs(edc_dB[j + 1] - target) => i <= j

\* C9: the boundary search returns an index nearest to the target and, among
\* those, the lowest, on any curve; the window is exactly the sample indices
\* i15 <= i < i35.
C9_ClosestIndexAndWindow ==
  WindowSelected =>
    /\ LowestClosest(minus_15_position_samples, -15)
    /\ LowestClosest(minus_35_position_samples, -35)
    /\ { rir_sample_indices_windowed[k] :
           k \in 1..Len(rir_sample_indices_windowed) }
         = { i \in 0..(Len(rir) - 1) :
               /\ minus_15_position_samples <= i
               /\ i < minus_35_position_samples }
    /\ \A k \in 1..(Len(rir_sample_indices_windowed) - 1) :
         rir_sample_indices_windowed[k] < rir_sample_indices_windowed[k + 1]

\* A curve that rises again, with two samples equally near -15 dB, and a
\* window that is not empty.
C9_Witness ==
  /\ WindowSelected
  /\ rir_sample_indices_windowed # << >>
  /\ \E i \in 1..(Len(edc_dB) - 1) : edc_dB[i] < edc_dB[i + 1]
  /\ \E j \in 0..(Len(edc_dB) - 1) :
       /\ j > minus_15_position_samples
       /\ Abs(edc_dB[j + 1] + 15)
            = Abs(edc_dB[minus_15_position_samples + 1] + 15)

(***************************************************************************)
(* Claims about getOctaveBandsFromIR (checked under SpecBands).            *)
(***************************************************************************)
BandsSet == pc \in {"bands_loop", "bands_done", "bands_raised"}

\* The nominal centres in milli-Hz: 1000 * 2^k Hz, k = -6..5, and
\* 1000 * 2^(-6 + 11 j / 33) Hz, j = 0..33.
NominalOctaveSet == { 15625 * Pow2(k) : k \in 0..11 }
NominalThirdOctaveSet == { Power(8 * j) : j \in 0..33 }

\* C3: the centres kept are exactly the nominal centres c with
\* 70 Hz < c < sample_rate / 2, none dropped and none added, in strictly
\* increasing order.
C3_CentresAreNominalInOpenInterval ==
  BandsSet =>
    LET nominal == IF octave_band_resolution = 1 THEN NominalOctaveSet
                   ELSE NominalThirdOctaveSet
        n == Len(octave_band_centres)
    IN  /\ { octave_band_centres[i] : i \in 1..n }
             = { c \in nominal : c > 70000 /\ 2 * c < sample_rate * 1000 }
        /\ \A i \in 1..n : \A j \in 1..n :
             i < j => octave_band_centres[i] < octave_band_centres[j]

\* A run in which a nominal centre equal to sample_rate / 2 was dropped and
\* centres below 70 Hz were dropped too.
C3_Witness ==
  /\ pc = "bands_done"
  /\ Len(octave_band_centres) >= 2
  /\ \E c \in NominalOctaveSet : 2 * c = sample_rate * 1000
  /\ octave_band_centres[1] > 70000

\* C4: with n >= 2 centres, band 0 is a low-pass of order 10 at
\* centre * factor, band n-1 a high-pass of order 10 at centre / factor, every
\* other band a band-pass of order 5 at (centre / factor, centre * factor),
\* and column i is the RIR filtered by the design of centre i.
C4_BandDesignByPosition ==
  (pc = "bands_done" /\ Len(octave_band_centres) >= 2) =>
    LET n == Len(octave_band_centres)
        steps == IF octave_band_resolution = 1 THEN 12 ELSE 4
    IN  \A i \in 0..(n - 1) :
          LET c == octave_band_centres[i + 1]
              lower == Power(Log(c) - steps)
              upper == Power(Log(c) + steps)
              col == band_signals[i + 1]
          IN  /\ col.x = rir
              /\ col.sos.fs = sample_rate
              /\ i = 0 =>
                   /\ col.sos.btype = "lowpass" /\ col.sos.N = 10
                   /\ col.sos.Wn = << upper >>
              /\ i = n - 1 =>
                   /\ col.sos.btype = "highpass" /\ col.sos.N = 10
                   /\ col.sos.Wn = << lower >>
              /\ (i # 0 /\ i # n - 1) =>
                   /\ col.sos.btype = "bandpass" /\ col.sos.N = 5
                   /\ col.sos.Wn = << lower, upper >>

\* A finished run with a low-pass, band-pass and high-pass band.
C4_Witness ==
  /\ pc = "bands_done"
  /\ Len(octave_band_centres) >= 3
  /\ band_signals[2].sos.btype = "bandpass"

\* C10: every cutoff handed to butter() lies strictly between 0 and
\* sample_rate / 2, also when a single centre is retained.
C10_CutoffsInsideNyquist ==
  \A i \in 1..Len(butter_calls) :
    \A j \in 1..Len(butter_calls[i].Wn) :
      /\ butter_calls[i].Wn[j] > 0
      /\ 2 * butter_calls[i].Wn[j] < sample_rate * 1000

====
